---- MODULE Spec2Model ----
(***************************************************************************)
(* The "Select By Index" Blender operator (src/__init__.py and its Blender *)
(* 3.6 variant src/SelectByIndex36.py): the linked range fields start /    *)
(* count / inc_stop / exc_stop, the re-clamp check(), and execute() /      *)
(* invoke() applying the range to the selection flags of the edit mesh.    *)
(***************************************************************************)
EXTENDS Integers, Sequences, FiniteSets

VARIABLES variant, input_mode, count, private_start, start, select_mode,
          replace_selection, mesh, mesh_select_mode, selected, last, prior,
          journal

vars == <<variant, input_mode, count, private_start, start, select_mode,
          replace_selection, mesh, mesh_select_mode, selected, last, prior,
          journal>>

\* ------------------------------------------------------------------ bounds

\* Largest exclusive stop (start + count) the fields are driven to.
MaxStop == 7

\* How far below the declared minimum an entered value may lie.
Below == 1

Values == (0 - Below)..MaxStop

Max(a, b) == IF a >= b THEN a ELSE b

Min(a, b) == IF a <= b THEN a ELSE b

\* ------------------------------------------------------- operator properties

Variants == {"init", "v36"}

InputModes == {"INCLUSIVE", "EXCLUSIVE", "COUNT"}

SelectModes == {"VERTEX", "EDGE", "FACE"}

\* The four range fields as one value, for the property callbacks below.
Fields == [input_mode |-> input_mode, count |-> count,
           private_start |-> private_start, start |-> start]

\* Mutant: the declared minimum of count is not enforced.
AssignCountUnclamped(f, v) == [f EXCEPT !.count = v]

\* self.count = v : IntProperty(min=1) clamps the assigned value.
AssignCount(f, v) == [f EXCEPT !.count = Max(v, 1)]

\* Mutant: private_start is not refreshed after an edit of start.
update_start_stale(f) ==
    IF f.input_mode # "COUNT"
    THEN AssignCount(f, f.count + f.private_start - f.start)
    ELSE f

\* update_start: the update callback of start.
update_start(f) ==
    LET g == IF f.input_mode # "COUNT"
             THEN AssignCount(f, Max(f.count + f.private_start - f.start, 1))
             ELSE f
    IN  [g EXCEPT !.private_start = g.start]

\* self.start = v : IntProperty(min=0, update=update_start).
AssignStart(f, v) == update_start([f EXCEPT !.start = Max(v, 0)])

get_inc_stop(f) == f.start + f.count - 1

get_exc_stop(f) == f.start + f.count

\* Mutant: a stop entered below start does not move start.
set_inc_stop_uncoupled(f, v) ==
    LET value == Max(v, 0)
    IN  AssignCount(f, 1 + value - f.start)

set_inc_stop(f, v) ==
    LET value == Max(v, 0)
    IN  IF f.input_mode # "COUNT" /\ value < f.start
        THEN AssignCount(AssignStart(f, value), 1)
        ELSE AssignCount(f, 1 + value - f.start)

\* Mutant: the exclusive stop is stored as if it were inclusive.
set_exc_stop_off(f, v) ==
    LET value == Max(v, 1)
    IN  IF f.input_mode # "COUNT" /\ value <= f.start
        THEN AssignCount(AssignStart(f, value - 1), 1)
        ELSE AssignCount(f, 1 + value - f.start)

set_exc_stop(f, v) ==
    LET value == Max(v, 1)
    IN  IF f.input_mode # "COUNT" /\ value <= f.start
        THEN AssignCount(AssignStart(f, value - 1), 1)
        ELSE AssignCount(f, value - f.start)

\* self.inc_stop = v : IntProperty(min=0, set=set_inc_stop).
AssignIncStop(f, v) == set_inc_stop(f, Max(v, 0))

\* self.exc_stop = v : IntProperty(min=1, set=set_exc_stop).
AssignExcStop(f, v) == set_exc_stop(f, Max(v, 1))

\* ------------------------------------------------------------------- check

\* Mutant: check() of src/__init__.py without the clamp of start.
check_init_keep_start(f, max_len) ==
    LET max_start == Max(max_len - 1, 0)
        stop == get_inc_stop(f)
    IN  IF f.start > max_start \/ stop > max_start
        THEN AssignIncStop(f, Min(stop, max_start))
        ELSE f

\* check() of src/__init__.py, after max_len has been read from the mesh.
check_init(f, max_len) ==
    LET max_start == Max(max_len - 1, 0)
        stop == get_inc_stop(f)
    IN  IF f.start > max_start \/ stop > max_start
        THEN AssignIncStop(AssignStart(f, Min(f.start, max_start)),
                           Min(stop, max_start))
        ELSE f

\* check() of src/SelectByIndex36.py, after max_len has been read.
check_36(f, max_len) ==
    IF max_len < 1
    THEN f
    ELSE LET max_index == max_len - 1
             f1 == IF f.start > max_index THEN AssignStart(f, max_index) ELSE f
             stop == IF f1.input_mode = "INCLUSIVE"
                     THEN get_inc_stop(f1) ELSE get_exc_stop(f1)
             clamped == IF f1.input_mode = "EXCLUSIVE" THEN max_len ELSE max_index
         IN  IF stop > max_len
             THEN IF f1.input_mode = "INCLUSIVE"
                  THEN AssignIncStop(f1, clamped)
                  ELSE AssignExcStop(f1, clamped)
             ELSE f1

check(v, f, max_len) ==
    IF v = "init" THEN check_init(f, max_len) ELSE check_36(f, max_len)

\* -------------------------------------------------------------------- mesh

\* The edit meshes considered: nv vertices 0..nv-1, the edges and faces in
\* index order, each given by its vertices.
Meshes ==
    << [nv |-> 0, edges |-> << >>, faces |-> << >>],
       [nv |-> 1, edges |-> << >>, faces |-> << >>],
       [nv |-> 3, edges |-> << {0, 1}, {1, 2} >>, faces |-> << >>],
       [nv |-> 4, edges |-> << {0, 1}, {1, 2}, {2, 3}, {0, 3}, {0, 2} >>,
                  faces |-> << {0, 1, 2}, {0, 2, 3} >>] >>

MeshIds == DOMAIN Meshes

Verts(m) == 0..(Meshes[m].nv - 1)

Edges(m) == 0..(Len(Meshes[m].edges) - 1)

Faces(m) == 0..(Len(Meshes[m].faces) - 1)

EdgeVerts(m, e) == Meshes[m].edges[e + 1]

FaceVerts(m, f) == Meshes[m].faces[f + 1]

FaceEdges(m, f) == {e \in Edges(m) : EdgeVerts(m, e) \subseteq FaceVerts(m, f)}

\* The element sequence of a select mode: bm.verts, bm.edges or bm.faces.
Items(m, mode) ==
    IF mode = "VERTEX" THEN Verts(m)
    ELSE IF mode = "EDGE" THEN Edges(m) ELSE Faces(m)

\* len(bm.verts) / len(bm.edges) / len(bm.faces).
Length(m, mode) == Cardinality(Items(m, mode))

NoneSelected == [verts |-> {}, edges |-> {}, faces |-> {}]

\* The select flags of the chosen sequence.
Chosen(sel, mode) ==
    IF mode = "VERTEX" THEN sel.verts
    ELSE IF mode = "EDGE" THEN sel.edges ELSE sel.faces

\* tool_settings.mesh_select_mode with just the one mode enabled.
OnlyMode(mode) == <<mode = "VERTEX", mode = "EDGE", mode = "FACE">>

\* Mutant: the deselect-all is left out.
select_all_deselect_skipped(sel) == sel

\* bpy.ops.mesh.select_all(action='DESELECT'): every flag of the mesh cleared.
select_all_deselect(sel) == NoneSelected

\* bm.select_flush_mode() under the active select mode: the flags of the
\* higher domains are recomputed from the active one.
select_flush_mode(m, sel, mode) ==
    IF mode = "VERTEX"
    THEN [sel EXCEPT !.edges = {e \in Edges(m) : EdgeVerts(m, e) \subseteq sel.verts},
                     !.faces = {f \in Faces(m) : FaceVerts(m, f) \subseteq sel.verts}]
    ELSE IF mode = "EDGE"
    THEN [sel EXCEPT !.faces = {f \in Faces(m) : FaceEdges(m, f) \subseteq sel.edges}]
    ELSE sel

\* bpy.ops.mesh.select_mode(type=...): the operator switches the edit mesh to
\* the one mode and converts the selection; asked for the mode that is
\* already the only active one it changes nothing.
select_mode_op(m, sel, active, mode) ==
    IF active = OnlyMode(mode)
    THEN sel
    ELSE IF mode = "VERTEX"
    THEN select_flush_mode(m, sel, "VERTEX")
    ELSE IF mode = "EDGE"
    THEN select_flush_mode(m,
            [sel EXCEPT !.verts = UNION {EdgeVerts(m, e) : e \in sel.edges}],
            "EDGE")
    ELSE [sel EXCEPT !.edges = UNION {FaceEdges(m, f) : f \in sel.faces},
                     !.verts = UNION {FaceVerts(m, f) : f \in sel.faces}]

\* item.select = True on item i of the chosen sequence: selecting an edge or a
\* face also selects the elements it is made of.
select_set(m, sel, mode, i) ==
    IF mode = "VERTEX"
    THEN [sel EXCEPT !.verts = @ \cup {i}]
    ELSE IF mode = "EDGE"
    THEN [sel EXCEPT !.edges = @ \cup {i}, !.verts = @ \cup EdgeVerts(m, i)]
    ELSE [sel EXCEPT !.faces = @ \cup {i}, !.edges = @ \cup FaceEdges(m, i),
                     !.verts = @ \cup FaceVerts(m, i)]

\* Mutant: the slice ends at the inclusive stop.
islice_short(items, lo, hi) == {i \in items : lo <= i /\ i < hi - 1}

\* islice(seq, lo, hi): the indices lo <= i < hi that exist in the sequence.
islice(items, lo, hi) == {i \in items : lo <= i /\ i < hi}

RECURSIVE SelectEach(_, _, _, _)
\* for item in islice(...): item.select = True
SelectEach(m, sel, mode, todo) ==
    IF todo = {}
    THEN sel
    ELSE LET i == CHOOSE x \in todo : \A y \in todo : x <= y
         IN  SelectEach(m, select_set(m, sel, mode, i), mode, todo \ {i})

\* Mutant: execute() that always deselects first.
execute_always_replace(m, sel, active, f, mode, replace) ==
    LET s0 == select_all_deselect(sel)
        s1 == select_mode_op(m, s0, active, mode)
        s2 == SelectEach(m, s1, mode, islice(Items(m, mode), f.start, get_exc_stop(f)))
    IN  select_flush_mode(m, s2, mode)

\* execute(): the select flags of mesh m after the operator has run with
\* fields f on the sequence of `mode`; `active` is the mesh select mode before.
execute(m, sel, active, f, mode, replace) ==
    LET s0 == IF replace THEN select_all_deselect(sel) ELSE sel
        s1 == select_mode_op(m, s0, active, mode)
        s2 == SelectEach(m, s1, mode, islice(Items(m, mode), f.start, get_exc_stop(f)))
    IN  select_flush_mode(m, s2, mode)

\* The selections a user leaves behind in a select mode: any set of elements
\* of that mode picked one by one, or everything selected (select all).
UserSelections(m, mode) ==
    {select_flush_mode(m, SelectEach(m, NoneSelected, mode, S), mode) :
        S \in SUBSET Items(m, mode)}
    \cup {[verts |-> Verts(m), edges |-> Edges(m), faces |-> Faces(m)]}

\* ----------------------------------------------------------------- history

\* What the last step was, with the fields it started from.
Entry(op, arg) ==
    [op |-> op, arg |-> arg, input_mode |-> input_mode, start |-> start,
     count |-> count]

Quiet == [op |-> "edit", arg |-> 0, input_mode |-> "INCLUSIVE", start |-> 0,
          count |-> 1]

\* Field edits are journaled one by one only when `journal` is set; the
\* selection before the last run is kept only until the next step.
Journal(op, arg) ==
    /\ last' = IF journal THEN Entry(op, arg) ELSE Quiet
    /\ prior' = NoneSelected

\* ----------------------------------------------------------------- actions

Store(f) ==
    /\ input_mode' = f.input_mode
    /\ count' = f.count
    /\ private_start' = f.private_start
    /\ start' = f.start

\* An edit of the range fields leaves the rest of the operator and the mesh.
EditFields(f, op, arg) ==
    /\ get_exc_stop(f) <= MaxStop
    /\ Store(f)
    /\ Journal(op, arg)
    /\ UNCHANGED <<variant, select_mode, replace_selection, mesh,
                   mesh_select_mode, selected, journal>>

SetStart(v) == EditFields(AssignStart(Fields, v), "start", v)

SetIncStop(v) == EditFields(AssignIncStop(Fields, v), "inc_stop", v)

SetExcStop(v) == EditFields(AssignExcStop(Fields, v), "exc_stop", v)

SetCount(v) == EditFields(AssignCount(Fields, v), "count", v)

SetInputMode(m) ==
    /\ m # input_mode
    /\ EditFields([Fields EXCEPT !.input_mode = m], "input_mode", 0)

SetSelectMode(m) ==
    /\ m # select_mode
    /\ select_mode' = m
    /\ Journal("select_mode", 0)
    /\ UNCHANGED <<variant, input_mode, count, private_start, start,
                   replace_selection, mesh, mesh_select_mode, selected,
                   journal>>

SetReplaceSelection(b) ==
    /\ b # replace_selection
    /\ replace_selection' = b
    /\ Journal("replace_selection", 0)
    /\ UNCHANGED <<variant, input_mode, count, private_start, start,
                   select_mode, mesh, mesh_select_mode, selected,
                   journal>>

\* check(): the fields re-clamped against the chosen sequence of the mesh.
Check ==
    /\ Store(check(variant, Fields, Length(mesh, select_mode)))
    /\ Journal("check", Length(mesh, select_mode))
    /\ UNCHANGED <<variant, select_mode, replace_selection, mesh,
                   mesh_select_mode, selected, journal>>

\* execute(): the operator run as it stands (a redo, or a scripted call).
Execute ==
    /\ selected' = execute(mesh, selected, mesh_select_mode, Fields,
                           select_mode, replace_selection)
    /\ mesh_select_mode' = OnlyMode(select_mode)
    /\ last' = Entry("execute", Length(mesh, select_mode))
    /\ prior' = selected
    /\ UNCHANGED <<variant, input_mode, count, private_start, start,
                   select_mode, replace_selection, mesh, journal>>

\* invoke(): select_mode taken from the mesh select mode, check, execute.
Invoke ==
    LET sm == mesh_select_mode
        mode == IF sm[1] THEN "VERTEX"
                ELSE IF sm[2] THEN "EDGE"
                ELSE IF sm[3] THEN "FACE" ELSE select_mode
        f == check(variant, Fields, Length(mesh, mode))
    IN  /\ select_mode' = mode
        /\ Store(f)
        /\ selected' = execute(mesh, selected, sm, f, mode, replace_selection)
        /\ mesh_select_mode' = OnlyMode(mode)
        /\ last' = Entry("invoke", Length(mesh, mode))
        /\ prior' = selected
        /\ UNCHANGED <<variant, replace_selection, mesh, journal>>

\* The element count changes under the open dialog.
ChangeMesh(m) ==
    /\ m # mesh
    /\ mesh' = m
    /\ Journal("mesh", 0)
    /\ UNCHANGED <<variant, input_mode, count, private_start, start,
                   select_mode, replace_selection, mesh_select_mode, selected,
                   journal>>

\* ----------------------------------------------------------- specifications

\* The operator as constructed: the property defaults.
Defaults ==
    /\ variant \in Variants
    /\ input_mode = "INCLUSIVE"
    /\ count = 1
    /\ private_start = 0
    /\ start = 0
    /\ select_mode = "VERTEX"
    /\ replace_selection = TRUE
    /\ last = Quiet
    /\ prior = NoneSelected

\* The mesh in edit mode with one select mode enabled and what the user has
\* selected in it.
Init ==
    /\ Defaults
    /\ journal = FALSE
    /\ mesh \in MeshIds
    /\ \E mode \in SelectModes :
          /\ mesh_select_mode = OnlyMode(mode)
          /\ selected \in UserSelections(mesh, mode)

Edit ==
    \/ \E v \in Values : SetStart(v)
    \/ \E v \in Values : SetIncStop(v)
    \/ \E v \in Values : SetExcStop(v)
    \/ \E v \in Values : SetCount(v)
    \/ \E m \in InputModes : SetInputMode(m)
    \/ \E m \in SelectModes : SetSelectMode(m)
    \/ Check

Next ==
    \/ Edit
    \/ \E b \in BOOLEAN : SetReplaceSelection(b)
    \/ Execute
    \/ Invoke

Spec == Init /\ [][Next]_vars

\* The dialog alone: the fields edited and re-clamped, every edit journaled.
InitFields ==
    /\ Defaults
    /\ journal = TRUE
    /\ mesh \in MeshIds
    /\ mesh_select_mode = OnlyMode("VERTEX")
    /\ selected = NoneSelected

NextFields ==
    \/ Edit
    \/ \E m \in MeshIds : ChangeMesh(m)

SpecFields == InitFields /\ [][NextFields]_vars

\* ------------------------------------------------------------------ claims

\* The element count of the chosen sequence.
ElementCount == Length(mesh, select_mode)

\* The range as it stood before the last step.
PreIncStop == last.start + last.count - 1

PreExcStop == last.start + last.count

NonCount(mode) == mode # "COUNT"

\* C1: in every state reached from the defaults by field edits and
\* re-clamps, the resolved half-open interval [start, exc_stop) satisfies
\* 0 <= start <= exc_stop.
C1_IntervalOrdered ==
    /\ 0 <= start
    /\ start <= get_exc_stop(Fields)

\* C1 witness: in COUNT mode an inclusive stop well below start has been
\* entered, the case in which 1 + value - start is not a valid count.
C1_Witness ==
    /\ last.op = "inc_stop"
    /\ last.input_mode = "COUNT"
    /\ last.arg >= 0
    /\ last.arg + 1 < last.start
    /\ start = last.start
    /\ count = 1

\* C2: right after check() the interval that drives selection satisfies
\* start >= 0 and exc_stop <= elementCount, for every elementCount >= 0,
\* input mode and variant.
C2_ClampedWithinElementCount ==
    last.op = "check" =>
        /\ start >= 0
        /\ get_exc_stop(Fields) <= last.arg

\* C3: invoke with replace_selection on a range 0 <= start <= inc_stop <=
\* N - 1 leaves exactly the elements start..inc_stop of the chosen sequence
\* selected, whatever was selected before.
C3_ReplaceSelectsExactlyRange ==
    (/\ last.op = "invoke"
     /\ replace_selection
     /\ last.arg >= 1
     /\ PreIncStop <= last.arg - 1)
    => Chosen(selected, select_mode) = last.start..PreIncStop

\* C3 witness: five edges, range 1..3, with edges on both sides of the range
\* selected before; afterwards exactly {1, 2, 3}.
C3_Witness ==
    /\ last.op = "invoke"
    /\ replace_selection
    /\ select_mode = "EDGE"
    /\ last.arg = 5
    /\ last.start = 1
    /\ last.count = 3
    /\ 0 \in prior.edges
    /\ 4 \in prior.edges
    /\ selected.edges = {1, 2, 3}

\* C4: in COUNT mode, with start < N and start + count > N, invoke with
\* replace_selection selects exactly start..N-1, in both variants.
C4_CountTruncatedAtEnd ==
    (/\ last.op = "invoke"
     /\ replace_selection
     /\ last.input_mode = "COUNT"
     /\ last.arg >= 1
     /\ last.start < last.arg
     /\ PreExcStop > last.arg)
    => Chosen(selected, select_mode) = last.start..(last.arg - 1)

\* C5: without replace_selection, execute (run alone or by invoke) leaves the chosen sequence with
\* exactly the elements selected before plus the existing indices of
\* [start, exc_stop).
C5_AdditiveKeepsPrior ==
    (/\ last.op \in {"execute", "invoke"}
     /\ ~replace_selection)
    => Chosen(selected, select_mode) =
          Chosen(prior, select_mode)
          \cup {i \in Items(mesh, select_mode) :
                   start <= i /\ i < start + count}

\* C5 witness: edges {0, 1} selected before, range {3, 4} added.
C5_Witness ==
    /\ last.op = "execute"
    /\ ~replace_selection
    /\ select_mode = "EDGE"
    /\ prior.edges = {0, 1}
    /\ start = 3
    /\ count = 2
    /\ selected.edges = {0, 1, 3, 4}

\* C6 as claimed: a requested start equal to elementCount >= 1 makes invoke
\* with replace_selection select nothing.
C6_StartAtCountSelectsNothing ==
    (/\ last.op = "invoke"
     /\ replace_selection
     /\ last.arg >= 1
     /\ last.start = last.arg)
    => Chosen(selected, select_mode) = {}

\* C6 as amended: a requested start equal to elementCount >= 1 is clamped
\* by check() to elementCount - 1, and invoke with replace_selection selects
\* exactly the last element.
C6_StartAtCountSelectsLast ==
    (/\ last.op = "invoke"
     /\ replace_selection
     /\ last.arg >= 1
     /\ last.start = last.arg)
    => /\ start = last.arg - 1
       /\ Chosen(selected, select_mode) = {last.arg - 1}

\* C6 witness: COUNT mode, start = elementCount and a count of at least 2.
C6_Witness ==
    /\ last.op = "invoke"
    /\ replace_selection
    /\ last.input_mode = "COUNT"
    /\ last.arg >= 2
    /\ last.start = last.arg
    /\ last.count >= 2
    /\ Chosen(selected, select_mode) = {last.arg - 1}

EnterInclusive(f, s, e) ==
    AssignIncStop(AssignStart([f EXCEPT !.input_mode = "INCLUSIVE"], s), e)

EnterExclusive(f, s, x) ==
    AssignExcStop(AssignStart([f EXCEPT !.input_mode = "EXCLUSIVE"], s), x)

EnterCount(f, s, c) ==
    AssignCount(AssignStart([f EXCEPT !.input_mode = "COUNT"], s), c)

Resolves(f, s, x) == f.start = s /\ get_exc_stop(f) = x

\* C8: from any reachable field state, entering (s, inclusive e), (s,
\* exclusive e + 1) or (s, count e - s + 1) in the respective input mode
\* resolves to the one interval [s, e + 1).
C8_InputModesAgree ==
    \A s \in 0..MaxStop : \A e \in s..MaxStop :
        /\ Resolves(EnterInclusive(Fields, s, e), s, e + 1)
        /\ Resolves(EnterExclusive(Fields, s, e + 1), s, e + 1)
        /\ Resolves(EnterCount(Fields, s, e - s + 1), s, e + 1)

\* C8 witness: Exclusive(2, 6) has been entered and the fields hold [2, 6),
\* as Inclusive(2, 5) and Count(2, 4) give from the same state.
C8_Witness ==
    /\ last.op = "exc_stop"
    /\ last.input_mode = "EXCLUSIVE"
    /\ last.start = 2
    /\ last.arg = 6
    /\ last.count # 4
    /\ Resolves(Fields, 2, 6)
    /\ Resolves(EnterInclusive(Fields, 2, 5), 2, 6)
    /\ Resolves(EnterCount(Fields, 2, 4), 2, 6)

\* C9: in the non-COUNT modes one edit of an endpoint across the other
\* leaves a span of exactly 1 at the edited value.
C9_CrossingLeavesSpanOne ==
    /\ (/\ last.op = "start"
        /\ NonCount(last.input_mode)
        /\ last.arg >= PreExcStop)
       => (start = last.arg /\ get_exc_stop(Fields) = last.arg + 1)
    /\ (/\ last.op = "inc_stop"
        /\ NonCount(last.input_mode)
        /\ 0 <= last.arg
        /\ last.arg < last.start)
       => (start = last.arg /\ get_inc_stop(Fields) = last.arg)
    /\ (/\ last.op = "exc_stop"
        /\ NonCount(last.input_mode)
        /\ 1 <= last.arg
        /\ last.arg <= last.start)
       => (start = last.arg - 1 /\ get_exc_stop(Fields) = last.arg)

\* C9 witness: an inclusive stop entered below start, with a span longer
\* than 1 before.
C9_Witness ==
    /\ last.op = "inc_stop"
    /\ NonCount(last.input_mode)
    /\ 0 <= last.arg
    /\ last.arg < last.start
    /\ last.count >= 2
    /\ start = last.arg
    /\ count = 1

\* C10: private_start equals start between edits; in the non-COUNT modes a
\* start entered below the exclusive stop leaves the exclusive stop where it
\* was, and in COUNT mode an edit of start leaves count as it was.
C10_StartEditKeepsStop ==
    /\ private_start = start
    /\ (/\ last.op = "start"
        /\ NonCount(last.input_mode)
        /\ last.arg < PreExcStop)
       => (start = Max(last.arg, 0) /\ get_exc_stop(Fields) = PreExcStop)
    /\ (last.op = "start" /\ last.input_mode = "COUNT")
       => (start = Max(last.arg, 0) /\ count = last.count)

\* C10 witness: in a non-COUNT mode start has been lowered and count has
\* grown by the difference.
C10_Witness ==
    /\ last.op = "start"
    /\ NonCount(last.input_mode)
    /\ 0 <= last.arg
    /\ last.arg < last.start
    /\ last.start >= 2
    /\ count = last.count + last.start - last.arg

====
